---- MODULE Spec2Model ----
(***************************************************************************)
(* Configuration and auth-file loader of PgBouncer (loader.c): the         *)
(* connection-string parser, parse_database / parse_user / parse_pool,     *)
(* set_autodb, load_auth_file and loader_users_check, acting on the user,  *)
(* database and pool registries.                                           *)
(*                                                                         *)
(* C strings are sequences of one-character strings.  A pointer that may   *)
(* be NULL is a sequence of length at most one: NULL is <<>> and a string  *)
(* s is <<s>>.                                                             *)
(***************************************************************************)
EXTENDS Integers, Sequences, FiniteSets, TLC

NULL == <<>>
Some(s) == <<s>>

(* ---- string literals of the source ---- *)
s_dbname == <<"d","b","n","a","m","e">>
s_host == <<"h","o","s","t">>
s_port == <<"p","o","r","t">>
s_user == <<"u","s","e","r">>
s_password == <<"p","a","s","s","w","o","r","d">>
s_auth_user == <<"a","u","t","h","_","u","s","e","r">>
s_client_encoding == <<"c","l","i","e","n","t","_","e","n","c","o","d","i","n","g">>
s_datestyle == <<"d","a","t","e","s","t","y","l","e">>
s_timezone == <<"t","i","m","e","z","o","n","e">>
s_pool_size == <<"p","o","o","l","_","s","i","z","e">>
s_min_pool_size == <<"m","i","n","_","p","o","o","l","_","s","i","z","e">>
s_reserve_pool == <<"r","e","s","e","r","v","e","_","p","o","o","l">>
s_max_db_connections == <<"m","a","x","_","d","b","_","c","o","n","n","e","c","t","i","o","n","s">>
s_pool_mode == <<"p","o","o","l","_","m","o","d","e">>
s_connect_query == <<"c","o","n","n","e","c","t","_","q","u","e","r","y">>
s_application_name == <<"a","p","p","l","i","c","a","t","i","o","n","_","n","a","m","e">>
s_max_user_connections == <<"m","a","x","_","u","s","e","r","_","c","o","n","n","e","c","t","i","o","n","s">>
s_database == <<"d","a","t","a","b","a","s","e">>
s_session == <<"s","e","s","s","i","o","n">>
s_transaction == <<"t","r","a","n","s","a","c","t","i","o","n">>
s_statement == <<"s","t","a","t","e","m","e","n","t">>
s_pgbouncer == <<"p","g","b","o","u","n","c","e","r">>
s_star == <<"*">>

(* ---- ConnString parsing ---- *)

\* while (*p && *p == ' ') p++
RECURSIVE cstr_skip_ws(_)
cstr_skip_ws(p) ==
    IF p # <<>> /\ Head(p) = " " THEN cstr_skip_ws(Tail(p)) ELSE p

\* index of the first character of p at or after i that ends a key
RECURSIVE key_end(_, _)
key_end(p, i) ==
    IF i <= Len(p) /\ p[i] # "=" /\ p[i] # " " THEN key_end(p, i + 1) ELSE i

\* index of the first character of p at or after i that ends an unquoted value
RECURSIVE value_end(_, _)
value_end(p, i) ==
    IF i <= Len(p) /\ p[i] # " " THEN value_end(p, i + 1) ELSE i

Failed == [ok |-> FALSE, key |-> <<>>, val |-> <<>>, rest |-> <<>>]

\* parse parameter name before '='; fails if no '=' or empty name
cstr_get_key(p0) ==
    LET p   == cstr_skip_ws(p0)
        e   == key_end(p, 1)
        q   == cstr_skip_ws(SubSeq(p, e, Len(p)))
    IN  IF q = <<>> \/ Head(q) # "=" \/ e = 1
        THEN Failed
        ELSE [ok |-> TRUE, key |-> SubSeq(p, 1, e - 1), val |-> <<>>, rest |-> Tail(q)]

\* unquote the quoted value after first quote: '' stands for one quote
RECURSIVE cstr_unquote_value(_, _, _)
cstr_unquote_value(p, i, s) ==
    IF i > Len(p) THEN Failed
    ELSE IF p[i] = "'"
         THEN IF i + 1 <= Len(p) /\ p[i + 1] = "'"
              THEN cstr_unquote_value(p, i + 2, Append(s, "'"))
              ELSE [ok |-> TRUE, key |-> <<>>, val |-> s, rest |-> SubSeq(p, i + 1, Len(p))]
         ELSE cstr_unquote_value(p, i + 1, Append(s, p[i]))

\* parse value, possibly quoted; one character after the value is cut;
\* empty values are disallowed
cstr_get_value(p0) ==
    LET p == cstr_skip_ws(p0)
        r == IF p # <<>> /\ Head(p) = "'"
             THEN cstr_unquote_value(Tail(p), 1, <<>>)
             ELSE LET e == value_end(p, 1)
                  IN  [ok |-> TRUE, key |-> <<>>, val |-> SubSeq(p, 1, e - 1),
                       rest |-> SubSeq(p, e, Len(p))]
    IN  IF ~r.ok \/ r.val = <<>> THEN Failed
        ELSE [r EXCEPT !.rest = IF @ # <<>> THEN Tail(@) ELSE @]

\* key=val pair from connstring; EOF is signalled by an empty key
cstr_get_pair(p0) ==
    LET p == cstr_skip_ws(p0)
    IN  IF p = <<>> THEN [ok |-> TRUE, key |-> <<>>, val |-> <<>>, rest |-> <<>>]
        ELSE LET k == cstr_get_key(p)
             IN  IF ~k.ok THEN Failed
                 ELSE LET v == cstr_get_value(k.rest)
                      IN  IF ~v.ok THEN Failed
                          ELSE [v EXCEPT !.key = k.key, !.rest = cstr_skip_ws(@)]

(* ---- number and keyword conversions ---- *)

Digits == <<"0", "1", "2", "3", "4", "5", "6", "7", "8", "9">>
IsDigit(c) == \E d \in 1..10 : Digits[d] = c
DigitVal(c) == (CHOOSE d \in 1..10 : Digits[d] = c) - 1

\* value of the leading run of digits of p starting at index i
RECURSIVE digits_value(_, _, _)
digits_value(p, i, acc) ==
    IF i <= Len(p) /\ IsDigit(p[i])
    THEN digits_value(p, i + 1, acc * 10 + DigitVal(p[i]))
    ELSE acc

\* index after the leading run of digits of p starting at index i
RECURSIVE digits_end(_, _)
digits_end(p, i) ==
    IF i <= Len(p) /\ IsDigit(p[i]) THEN digits_end(p, i + 1) ELSE i

\* atoi: leading blanks, optional sign, then the digits there are; 0 if none
atoi(val) ==
    LET p == cstr_skip_ws(val)
        neg == p # <<>> /\ Head(p) = "-"
        q == IF p # <<>> /\ Head(p) \in {"-", "+"} THEN Tail(p) ELSE p
        n == digits_value(q, 1, 0)
    IN  IF neg THEN 0 - n ELSE n

\* cf_set_int: strtol, and the whole value must have been consumed
cf_set_int(val) ==
    LET neg == val # <<>> /\ Head(val) = "-"
        q == IF val # <<>> /\ Head(val) \in {"-", "+"} THEN Tail(val) ELSE val
        e == digits_end(q, 1)
        n == digits_value(q, 1, 0)
    IN  IF e = 1 \/ e <= Len(q)
        THEN [ok |-> FALSE, value |-> 0]
        ELSE [ok |-> TRUE, value |-> IF neg THEN 0 - n ELSE n]

POOL_INHERIT == "inherit"

\* cf_set_lookup over pool_mode_map
cf_set_lookup(val) ==
    IF val = s_session THEN [ok |-> TRUE, value |-> "session"]
    ELSE IF val = s_transaction THEN [ok |-> TRUE, value |-> "transaction"]
    ELSE IF val = s_statement THEN [ok |-> TRUE, value |-> "statement"]
    ELSE [ok |-> FALSE, value |-> POOL_INHERIT]

(* ---- the registries ---- *)

VARIABLES
    users,              \* user registry: name -> PgUser
    databases,          \* database registry: name -> PgDatabase
    pools,              \* pool list: sequence of PgPool, in creation order
    cf_autodb_connstr,  \* NULL or the autodb connection string
    cf_auth_file,       \* NULL or the configured auth file name
    auth_file,          \* the auth file on disk
    cache_set,          \* auth_loaded: static bool cache_set
    cache,              \* auth_loaded: static struct stat cache
    last                \* the loader call just made: arguments, result, dirty tags

vars == <<users, databases, pools, cf_autodb_connstr, cf_auth_file, auth_file,
          cache_set, cache, last>>

\* the registries as one value, threaded through the loader functions
Registry == [users |-> users, databases |-> databases, pools |-> pools,
             autodb |-> cf_autodb_connstr]

EmptyMap == [x \in {} |-> 0]

find_user(reg, name) == name \in DOMAIN reg.users
find_database(reg, name) == name \in DOMAIN reg.databases

\* a user object as add_user allocates it
NewUser(passwd) ==
    [passwd |-> passwd, from_auth_file |-> FALSE,
     pool_mode |-> POOL_INHERIT, max_user_connections |-> -1]

\* add_user: find or create the user, then store the password
add_user(reg, name, passwd) ==
    [reg EXCEPT !.users =
        [n \in DOMAIN reg.users \cup {name} |->
            IF n = name
            THEN IF name \in DOMAIN reg.users
                 THEN [reg.users[n] EXCEPT !.passwd = passwd]
                 ELSE NewUser(passwd)
            ELSE reg.users[n]]]

\* a database object as add_database allocates it: zeroed, no dbname yet
NewDatabase ==
    [dbname |-> NULL, host |-> NULL, port |-> 0,
     pool_size |-> 0, min_pool_size |-> 0, res_pool_size |-> 0,
     max_db_connections |-> 0, pool_mode |-> "session",
     connect_query |-> NULL, startup_params |-> <<>>,
     auth_user |-> NULL, forced_user |-> NULL,
     db_dead |-> FALSE, db_auto |-> FALSE, inactive_time |-> 0]

\* add_database: find or create the database
add_database(reg, name) ==
    IF name \in DOMAIN reg.databases THEN reg
    ELSE [reg EXCEPT !.databases =
            [n \in DOMAIN reg.databases \cup {name} |->
                IF n = name THEN NewDatabase ELSE reg.databases[n]]]

\* force_user: the database's own fake user object gets the name and password
force_user(db, name, passwd) ==
    [db EXCEPT !.forced_user = Some([name |-> name, passwd |-> passwd])]

\* tag_autodb_dirty: the databases whose pools are tagged, the auto-created ones
tag_autodb_dirty(reg) == {n \in DOMAIN reg.databases : reg.databases[n].db_auto}

(* ---- parse_database ---- *)

\* (variant: the pool sizes start at 0 instead of -1)
database_defaults_zero(name) ==
    [pool_size |-> 0, min_pool_size |-> 0, res_pool_size |-> 0,
     max_db_connections |-> 0, pool_mode |-> POOL_INHERIT,
     dbname |-> name, host |-> NULL, port |-> 5432,
     username |-> NULL, password |-> <<>>, auth_username |-> NULL,
     client_encoding |-> NULL, datestyle |-> NULL, timezone |-> NULL,
     connect_query |-> NULL, appname |-> NULL]

\* the locals of parse_database before the connection string is read
database_defaults(name) ==
    [pool_size |-> -1, min_pool_size |-> -1, res_pool_size |-> -1,
     max_db_connections |-> -1, pool_mode |-> POOL_INHERIT,
     dbname |-> name, host |-> NULL, port |-> 5432,
     username |-> NULL, password |-> <<>>, auth_username |-> NULL,
     client_encoding |-> NULL, datestyle |-> NULL, timezone |-> NULL,
     connect_query |-> NULL, appname |-> NULL]

\* one key=value pair of a database connection string applied to the locals
database_param(loc, key, val) ==
    IF key = s_dbname THEN [ok |-> TRUE, loc |-> [loc EXCEPT !.dbname = val]]
    ELSE IF key = s_host THEN [ok |-> TRUE, loc |-> [loc EXCEPT !.host = Some(val)]]
    ELSE IF key = s_port
         THEN [ok |-> atoi(val) # 0, loc |-> [loc EXCEPT !.port = atoi(val)]]
    ELSE IF key = s_user THEN [ok |-> TRUE, loc |-> [loc EXCEPT !.username = Some(val)]]
    ELSE IF key = s_password THEN [ok |-> TRUE, loc |-> [loc EXCEPT !.password = val]]
    ELSE IF key = s_auth_user
         THEN [ok |-> TRUE, loc |-> [loc EXCEPT !.auth_username = Some(val)]]
    ELSE IF key = s_client_encoding
         THEN [ok |-> TRUE, loc |-> [loc EXCEPT !.client_encoding = Some(val)]]
    ELSE IF key = s_datestyle
         THEN [ok |-> TRUE, loc |-> [loc EXCEPT !.datestyle = Some(val)]]
    ELSE IF key = s_timezone
         THEN [ok |-> TRUE, loc |-> [loc EXCEPT !.timezone = Some(val)]]
    ELSE IF key = s_pool_size
         THEN [ok |-> TRUE, loc |-> [loc EXCEPT !.pool_size = atoi(val)]]
    ELSE IF key = s_min_pool_size
         THEN [ok |-> TRUE, loc |-> [loc EXCEPT !.min_pool_size = atoi(val)]]
    ELSE IF key = s_reserve_pool
         THEN [ok |-> TRUE, loc |-> [loc EXCEPT !.res_pool_size = atoi(val)]]
    ELSE IF key = s_max_db_connections
         THEN [ok |-> TRUE, loc |-> [loc EXCEPT !.max_db_connections = atoi(val)]]
    ELSE IF key = s_pool_mode
         THEN [ok |-> cf_set_lookup(val).ok,
               loc |-> [loc EXCEPT !.pool_mode = cf_set_lookup(val).value]]
    ELSE IF key = s_connect_query
         THEN [ok |-> TRUE, loc |-> [loc EXCEPT !.connect_query = Some(val)]]
    ELSE IF key = s_application_name
         THEN [ok |-> TRUE, loc |-> [loc EXCEPT !.appname = Some(val)]]
    ELSE [ok |-> FALSE, loc |-> loc]

\* the while (*p) loop of parse_database
RECURSIVE database_params(_, _)
database_params(p, loc) ==
    IF p = <<>> THEN [ok |-> TRUE, loc |-> loc]
    ELSE LET pr == cstr_get_pair(p)
         IN  IF ~pr.ok THEN [ok |-> FALSE, loc |-> loc]
             ELSE IF pr.key = <<>> THEN [ok |-> TRUE, loc |-> loc]
             ELSE LET a == database_param(loc, pr.key, pr.val)
                  IN  IF ~a.ok THEN [ok |-> FALSE, loc |-> loc]
                      ELSE database_params(pr.rest, a.loc)

\* (variant: the port is not compared)
database_changed_no_port(db, loc) ==
    IF db.dbname[1] # loc.dbname THEN TRUE
    ELSE IF (loc.host # NULL) # (db.host # NULL)
            \/ (loc.host # NULL /\ loc.host # db.host) THEN TRUE
    ELSE IF loc.username # NULL /\ db.forced_user = NULL THEN TRUE
    ELSE IF loc.username # NULL /\ loc.username[1] # db.forced_user[1].name THEN TRUE
    ELSE IF loc.username = NULL /\ db.forced_user # NULL THEN TRUE
    ELSE IF (loc.connect_query # NULL) # (db.connect_query # NULL)
            \/ (loc.connect_query # NULL /\ loc.connect_query # db.connect_query)
         THEN TRUE
    ELSE FALSE

\* if updating old db, check if anything changed
database_changed(db, loc) ==
    IF db.dbname[1] # loc.dbname THEN TRUE
    ELSE IF (loc.host # NULL) # (db.host # NULL)
            \/ (loc.host # NULL /\ loc.host # db.host) THEN TRUE
    ELSE IF loc.port # db.port THEN TRUE
    ELSE IF loc.username # NULL /\ db.forced_user = NULL THEN TRUE
    ELSE IF loc.username # NULL /\ loc.username[1] # db.forced_user[1].name THEN TRUE
    ELSE IF loc.username = NULL /\ db.forced_user # NULL THEN TRUE
    ELSE IF (loc.connect_query # NULL) # (db.connect_query # NULL)
            \/ (loc.connect_query # NULL /\ loc.connect_query # db.connect_query)
         THEN TRUE
    ELSE FALSE

\* the startup packet parameters written into db->startup_params
startup_params(loc) ==
    <<s_database, loc.dbname>>
    \o (IF loc.client_encoding # NULL
        THEN <<s_client_encoding, loc.client_encoding[1]>> ELSE <<>>)
    \o (IF loc.datestyle # NULL THEN <<s_datestyle, loc.datestyle[1]>> ELSE <<>>)
    \o (IF loc.timezone # NULL THEN <<s_timezone, loc.timezone[1]>> ELSE <<>>)
    \o (IF loc.appname # NULL THEN <<s_application_name, loc.appname[1]>> ELSE <<>>)

\* the fields of the database overwritten from the locals
database_store(db, loc) ==
    LET d1 == [db EXCEPT !.db_dead = FALSE, !.db_auto = FALSE, !.inactive_time = 0,
                         !.host = loc.host, !.port = loc.port,
                         !.pool_size = loc.pool_size,
                         !.min_pool_size = loc.min_pool_size,
                         !.res_pool_size = loc.res_pool_size,
                         !.pool_mode = loc.pool_mode,
                         !.max_db_connections = loc.max_db_connections,
                         !.connect_query = loc.connect_query,
                         !.startup_params = startup_params(loc),
                         !.auth_user = loc.auth_username,
                         !.dbname = Some(loc.dbname)]
    IN  \* losing forced user not supported, keeping old setting
        IF loc.username # NULL
        THEN force_user(d1, loc.username[1], loc.password)
        ELSE d1

\* (variant: an old string is not compared with the new one)
set_autodb_always(reg, connstr) ==
    [ret |-> TRUE,
     reg |-> [reg EXCEPT !.autodb = Some(connstr)],
     tagged |-> IF reg.autodb # NULL THEN tag_autodb_dirty(reg) ELSE {},
     autotag |-> reg.autodb # NULL, filled |-> {}]

\* replace cf_autodb_connstr; tag the auto databases if an old string differs
set_autodb(reg, connstr) ==
    LET old == reg.autodb
        differs == old # NULL /\ connstr # old[1]
    IN  [ret |-> TRUE,
         reg |-> [reg EXCEPT !.autodb = Some(connstr)],
         tagged |-> IF differs THEN tag_autodb_dirty(reg) ELSE {},
         autotag |-> differs, filled |-> {}]

\* filled: the <<name, connection string>> a database was filled from in the call
Unchanged(reg, ret) ==
    [ret |-> ret, reg |-> reg, tagged |-> {}, autotag |-> FALSE, filled |-> {}]

\* (variant: no name is reserved)
reserved_name_none(name) == FALSE

\* a database name the configuration may not use
reserved_name(name) == name = s_pgbouncer

\* parse_database after the while (*p) loop, which ended as r tells
database_fill(reg, name, connstr, r) ==
    IF ~r.ok THEN Unchanged(reg, FALSE)
    ELSE LET reg1 == add_database(reg, name)
             db   == reg1.databases[name]
             changed == db.dbname # NULL /\ database_changed(db, r.loc)
             reg2 == IF r.loc.auth_username # NULL
                        /\ ~find_user(reg1, r.loc.auth_username[1])
                     THEN add_user(reg1, r.loc.auth_username[1], <<>>)
                     ELSE reg1
         IN  [ret |-> TRUE,
              reg |-> [reg2 EXCEPT !.databases[name] = database_store(db, r.loc)],
              tagged |-> IF changed THEN {name} ELSE {},
              autotag |-> FALSE, filled |-> {<<name, connstr>>}]

\* fill PgDatabase from connstr
parse_database(reg, name, connstr) ==
    IF reserved_name(name) THEN Unchanged(reg, FALSE)
    ELSE IF name = s_star THEN set_autodb(reg, connstr)
    ELSE database_fill(reg, name, connstr,
                       database_params(connstr, database_defaults(name)))

(* ---- parse_user ---- *)

\* (variant: the user is added without looking it up first)
get_preconfigured_user_reset(reg, name) == add_user(reg, name, <<>>)

\* find the user, or add it with an empty password as a pre-configuration
get_preconfigured_user(reg, name) ==
    IF find_user(reg, name) THEN reg ELSE add_user(reg, name, <<>>)

user_defaults == [pool_mode |-> POOL_INHERIT, max_user_connections |-> -1]

\* one key=value pair of a user parameter string applied to the locals
user_param(loc, key, val) ==
    IF key = s_pool_mode
    THEN [ok |-> cf_set_lookup(val).ok,
          loc |-> [loc EXCEPT !.pool_mode = cf_set_lookup(val).value]]
    ELSE IF key = s_max_user_connections
    THEN [ok |-> cf_set_int(val).ok,
          loc |-> [loc EXCEPT !.max_user_connections = cf_set_int(val).value]]
    ELSE [ok |-> FALSE, loc |-> loc]

\* the while (*p) loop of parse_user
RECURSIVE user_params(_, _)
user_params(p, loc) ==
    IF p = <<>> THEN [ok |-> TRUE, loc |-> loc]
    ELSE LET pr == cstr_get_pair(p)
         IN  IF ~pr.ok THEN [ok |-> FALSE, loc |-> loc]
             ELSE IF pr.key = <<>> THEN [ok |-> TRUE, loc |-> loc]
             ELSE LET a == user_param(loc, pr.key, pr.val)
                  IN  IF ~a.ok THEN [ok |-> FALSE, loc |-> loc]
                      ELSE user_params(pr.rest, a.loc)

\* (variant: the user is pre-configured before the string is read)
parse_user_early(reg, name, connstr) ==
    IF connstr = <<>> THEN Unchanged(reg, FALSE)
    ELSE LET r == user_params(connstr, user_defaults)
             reg1 == get_preconfigured_user(reg, name)
         IN  IF ~r.ok THEN Unchanged(reg1, FALSE)
             ELSE Unchanged(
                    [reg1 EXCEPT !.users[name].pool_mode = r.loc.pool_mode,
                                 !.users[name].max_user_connections =
                                     r.loc.max_user_connections],
                    TRUE)

parse_user(reg, name, connstr) ==
    IF connstr = <<>> THEN Unchanged(reg, FALSE)
    ELSE LET r == user_params(connstr, user_defaults)
         IN  IF ~r.ok THEN Unchanged(reg, FALSE)
             ELSE LET reg1 == get_preconfigured_user(reg, name)
                  IN  Unchanged(
                        [reg1 EXCEPT !.users[name].pool_mode = r.loc.pool_mode,
                                     !.users[name].max_user_connections =
                                         r.loc.max_user_connections],
                        TRUE)

(* ---- parse_pool ---- *)

RECURSIVE skip_delim(_)
skip_delim(p) == IF p # <<>> /\ Head(p) = "." THEN skip_delim(Tail(p)) ELSE p

RECURSIVE token_end(_, _)
token_end(p, i) == IF i <= Len(p) /\ p[i] # "." THEN token_end(p, i + 1) ELSE i

\* strtok(., "."): skip delimiters, cut the token at the next delimiter and
\* remember the position after it
strtok(p) ==
    LET q == skip_delim(p)
        e == token_end(q, 1)
    IN  IF q = <<>> THEN [tok |-> NULL, save |-> <<>>]
        ELSE [tok |-> Some(SubSeq(q, 1, e - 1)), save |-> SubSeq(q, e + 1, Len(q))]

\* split "user.database"; an empty name has no token and is rejected whatever
\* the byte before the buffer holds
parse_pool_name(pool_name) ==
    LET t1 == strtok(pool_name)
        t2 == strtok(t1.save)
        t3 == strtok(t2.save)
        no == [ok |-> FALSE, username |-> <<>>, dbname |-> <<>>]
    IN  IF pool_name = <<>> THEN no
        ELSE IF pool_name[1] = "." \/ pool_name[Len(pool_name)] = "." THEN no
        ELSE IF t1.tok = NULL THEN no
        ELSE IF t2.tok = NULL THEN no
        ELSE IF t3.tok # NULL THEN no
        ELSE [ok |-> TRUE, username |-> t1.tok[1], dbname |-> t2.tok[1]]

\* register_auto_database after its parse_database, which returned r: the
\* database, if found, is marked auto-created
auto_database(r, name) ==
    IF find_database(r.reg, name)
    THEN [r EXCEPT !.ret = TRUE, !.reg.databases[name].db_auto = TRUE]
    ELSE [r EXCEPT !.ret = FALSE]

\* register_auto_database: with an autodb connection string, fill the database
\* from it and mark it auto-created
register_auto_database(reg, name) ==
    IF reg.autodb = NULL THEN Unchanged(reg, FALSE)
    ELSE auto_database(parse_database(reg, name, reg.autodb[1]), name)

\* find the database, or add it; new databases are assumed to be an autodb
get_preconfigured_database(reg, name) ==
    IF find_database(reg, name) THEN Unchanged(reg, TRUE)
    ELSE [register_auto_database(add_database(reg, name), name) EXCEPT !.ret = TRUE]

find_pool(reg, dbname, username) ==
    {i \in 1..Len(reg.pools) :
        reg.pools[i].db = dbname /\ reg.pools[i].user = username}

\* get_pool: the pool of (db, user), created at the end of the list if missing
get_pool(reg, dbname, username) ==
    IF find_pool(reg, dbname, username) # {} THEN reg
    ELSE [reg EXCEPT !.pools =
            Append(@, [db |-> dbname, user |-> username, pool_size |-> -1])]

pool_defaults == [pool_size |-> -1]

\* one key=value pair of a pool parameter string applied to the locals
pool_param(loc, key, val) ==
    IF key = s_pool_size
    THEN [ok |-> cf_set_int(val).ok,
          loc |-> [loc EXCEPT !.pool_size = cf_set_int(val).value]]
    ELSE [ok |-> FALSE, loc |-> loc]

\* the while (*p) loop of parse_pool
RECURSIVE pool_params(_, _)
pool_params(p, loc) ==
    IF p = <<>> THEN [ok |-> TRUE, loc |-> loc]
    ELSE LET pr == cstr_get_pair(p)
         IN  IF ~pr.ok THEN [ok |-> FALSE, loc |-> loc]
             ELSE IF pr.key = <<>> THEN [ok |-> TRUE, loc |-> loc]
             ELSE LET a == pool_param(loc, pr.key, pr.val)
                  IN  IF ~a.ok THEN [ok |-> FALSE, loc |-> loc]
                      ELSE pool_params(pr.rest, a.loc)

\* pool->pool_size = pool_size on the pool get_pool returned, the first match
set_pool_size(reg, dbname, username, pool_size) ==
    LET i == CHOOSE j \in find_pool(reg, dbname, username) :
                 \A k \in find_pool(reg, dbname, username) : j <= k
    IN  [reg EXCEPT !.pools[i].pool_size = pool_size]

parse_pool(reg, name, params) ==
    IF params = <<>> THEN Unchanged(reg, FALSE)
    ELSE LET r == pool_params(params, pool_defaults)
             n == parse_pool_name(name)
         IN  IF ~r.ok THEN Unchanged(reg, FALSE)
             ELSE IF ~n.ok THEN Unchanged(reg, FALSE)
             ELSE [get_preconfigured_database(
                       get_preconfigured_user(reg, n.username), n.dbname)
                   EXCEPT !.ret = TRUE,
                          !.reg = set_pool_size(get_pool(@, n.dbname, n.username),
                                                n.dbname, n.username,
                                                r.loc.pool_size)]

(* ---- User file parsing ---- *)

\* longest user name and password kept, terminator included (scaled down)
MAX_USERNAME == 4
MAX_PASSWORD == 5

IsSpace(c) == c \in {" ", "\t", "\n", "\r"}

\* find next " in buf from index p on, skipping escaped ones; Len(buf) + 1
\* stands for the terminating NUL
RECURSIVE find_quote(_, _, _)
find_quote(buf, p, start) ==
    IF p <= Len(buf) /\ buf[p] # "\"" THEN find_quote(buf, p + 1, start)
    ELSE IF p <= Len(buf) /\ p + 1 <= Len(buf) /\ buf[p + 1] = "\"" /\ ~start
         THEN find_quote(buf, p + 2, start)
         ELSE p

\* string is unquoted while copying, at most len - 1 characters are kept
RECURSIVE copy_quoted(_, _, _)
copy_quoted(dst, src, len) ==
    IF src = <<>> \/ Len(dst) >= len - 1 THEN dst
    ELSE IF Head(src) = "\""
         THEN IF Len(src) >= 2
              THEN copy_quoted(Append(dst, src[2]), SubSeq(src, 3, Len(src)), len)
              ELSE dst
         ELSE copy_quoted(Append(dst, Head(src)), Tail(src), len)

unquote_add_user(reg, username, password) ==
    add_user(reg, copy_quoted(<<>>, username, MAX_USERNAME),
                  copy_quoted(<<>>, password, MAX_PASSWORD))

\* the registry key of the user unquote_add_user has just added
unquoted_name(username) == copy_quoted(<<>>, username, MAX_USERNAME)

\* (variant: the flag is left as it is)
disable_user_cb_keep_flag(user) == [user EXCEPT !.passwd = <<>>]

disable_user_cb(user) == [user EXCEPT !.passwd = <<>>, !.from_auth_file = FALSE]

\* walk_users(disable_user_cb)
disable_users(reg) ==
    [reg EXCEPT !.users = [n \in DOMAIN reg.users |-> disable_user_cb(reg.users[n])]]

RECURSIVE skip_space(_, _)
skip_space(buf, p) ==
    IF p <= Len(buf) /\ IsSpace(buf[p]) THEN skip_space(buf, p + 1) ELSE p

RECURSIVE skip_line(_, _)
skip_line(buf, p) ==
    IF p <= Len(buf) /\ buf[p] # "\n" THEN skip_line(buf, p + 1) ELSE p

\* the while (*p) loop of load_auth_file; every break ends the load
RECURSIVE auth_lines(_, _, _)
auth_lines(reg, buf, p0) ==
    LET p  == skip_space(buf, p0)
        \* username = ++p; p = find_quote(p, false)
        u1 == p + 1
        u2 == find_quote(buf, u1, FALSE)
        \* *p++ = 0; p = find_quote(p, true); password = ++p; find_quote(p, false)
        q0 == find_quote(buf, u2 + 1, TRUE)
        w1 == q0 + 1
        w2 == find_quote(buf, w1, FALSE)
        reg1 == unquote_add_user(reg, SubSeq(buf, u1, u2 - 1), SubSeq(buf, w1, w2 - 1))
        name == unquoted_name(SubSeq(buf, u1, u2 - 1))
    IN  IF p > Len(buf) THEN reg
        ELSE IF buf[p] = ";" THEN auth_lines(reg, buf, skip_line(buf, p))
        ELSE IF buf[p] # "\"" THEN reg
        ELSE IF u2 > Len(buf) THEN reg
        ELSE IF u2 - u1 >= MAX_USERNAME THEN reg
        ELSE IF q0 > Len(buf) THEN reg
        ELSE IF w2 > Len(buf) THEN reg
        ELSE IF w2 - w1 >= MAX_PASSWORD THEN reg
        ELSE auth_lines([reg1 EXCEPT !.users[name].from_auth_file = TRUE],
                        buf, skip_line(buf, w2 + 1))

\* stat(): the signature of the file, all zero if it cannot be stat'ed
ZeroStat == [st_dev |-> 0, st_ino |-> 0, st_mode |-> 0, st_uid |-> 0, st_gid |-> 0,
             st_mtime |-> 0, st_size |-> 0]

stat(fn, file) ==
    IF file.exists
    THEN [st_dev |-> 1, st_ino |-> 1, st_mode |-> IF file.readable THEN 2 ELSE 1,
          st_uid |-> 1, st_gid |-> 1, st_mtime |-> file.mtime,
          st_size |-> Len(file.content)]
    ELSE ZeroStat

\* load_file(): the content, or NULL if the file cannot be opened
load_file(fn, file) ==
    IF file.exists /\ file.readable THEN Some(file.content) ELSE NULL

\* load list of users from auth_file
load_auth_file(reg, fn, file) ==
    IF fn = NULL THEN [ret |-> FALSE, reg |-> reg, loaded |-> FALSE]
    ELSE IF load_file(fn, file) = NULL THEN [ret |-> FALSE, reg |-> reg, loaded |-> FALSE]
    ELSE [ret |-> TRUE,
          reg |-> auth_lines(disable_users(reg), load_file(fn, file)[1], 1),
          loaded |-> TRUE]

\* has the file with this stat signature been seen?  Remembers the signature.
auth_loaded(fn, file, cset, c) ==
    IF fn = NULL THEN [ret |-> FALSE, cache_set |-> TRUE, cache |-> ZeroStat]
    ELSE IF cset /\ c = stat(fn, file)
         THEN [ret |-> TRUE, cache_set |-> cset, cache |-> c]
         ELSE [ret |-> FALSE, cache_set |-> TRUE, cache |-> stat(fn, file)]

loader_users_check(reg, fn, file, cset, c) ==
    LET a == auth_loaded(fn, file, cset, c)
        l == load_auth_file(reg, fn, file)
    IN  IF a.ret
        THEN [ret |-> TRUE, reg |-> reg, loaded |-> FALSE, attempted |-> FALSE,
              cache_set |-> a.cache_set, cache |-> a.cache]
        ELSE [ret |-> l.ret, reg |-> l.reg, loaded |-> l.loaded, attempted |-> TRUE,
              cache_set |-> a.cache_set, cache |-> a.cache]

(* ---- inputs: parameter strings ---- *)

\* the longest parameter string and auth file tried, in pairs and in lines
MaxPairs == 2
MaxLines == 2

v_a == <<"a">>
v_b == <<"b">>
v_u1 == <<"u", "1">>
v_u2 == <<"u", "2">>
v_d1 == <<"d", "1">>
v_d2 == <<"d", "2">>
v_p1 == <<"p", "1">>
v_p2 == <<"p", "2">>
v_1 == <<"1">>
v_7 == <<"7">>
v_12 == <<"1", "2">>
v_6432 == <<"6", "4", "3", "2">>
v_utf8 == <<"u", "t", "f", "8">>
v_iso == <<"i", "s", "o">>
v_utc == <<"u", "t", "c">>
v_query == <<"s", "e", "t", " ", "x">>
v_quoted == <<"i", "t", "'", "s">>
v_bogus == <<"b", "o", "g", "u", "s">>
v_7x == <<"7", "x">>
v_x == <<"x">>

\* a pair key=value as it is meant; q: written in quotes
P(k, v) == [k |-> k, v |-> v, q |-> FALSE]
Q(k, v) == [k |-> k, v |-> v, q |-> TRUE]

\* a parameter string: well-formed pairs, then possibly a malformed tail
Good(pairs) == [pairs |-> pairs, tail |-> <<>>]
With(pairs, tail) == [pairs |-> pairs, tail |-> tail]

RECURSIVE escape_quotes(_)
escape_quotes(v) ==
    IF v = <<>> THEN <<>>
    ELSE (IF Head(v) = "'" THEN <<"'", "'">> ELSE <<Head(v)>>) \o escape_quotes(Tail(v))

RenderPair(pr) ==
    pr.k \o <<"=">> \o
    (IF pr.q THEN <<"'">> \o escape_quotes(pr.v) \o <<"'">> ELSE pr.v)

RECURSIVE RenderPairs(_)
RenderPairs(pairs) ==
    IF pairs = <<>> THEN <<>>
    ELSE IF Len(pairs) = 1 THEN RenderPair(pairs[1])
    ELSE RenderPair(pairs[1]) \o <<" ">> \o RenderPairs(Tail(pairs))

\* the characters handed to the parser
Render(d) ==
    RenderPairs(d.pairs)
    \o (IF d.pairs # <<>> /\ d.tail # <<>> THEN <<" ">> ELSE <<>>)
    \o d.tail

\* the value the string gives for key k: the last one, or NULL
RECURSIVE Given(_, _)
Given(pairs, k) ==
    IF pairs = <<>> THEN NULL
    ELSE IF pairs[Len(pairs)].k = k THEN Some(pairs[Len(pairs)].v)
    ELSE Given(SubSeq(pairs, 1, Len(pairs) - 1), k)

\* malformed endings of a parameter string
t_nokey == <<"=", "a">>
t_noequal == s_host
t_novalue == s_host \o <<"=">>
t_openquote == s_host \o <<"=", "'", "a">>
t_unknown == v_bogus \o <<"=", "1">>
t_badport == s_port \o <<"=">> \o v_x
t_badmode == s_pool_mode \o <<"=">> \o v_bogus
t_badint == s_max_user_connections \o <<"=">> \o v_7x
t_badsize == s_pool_size \o <<"=">> \o v_7x
t_blank == <<" ">>

DbPairs ==
    { P(s_dbname, v_d2), P(s_host, v_a), P(s_host, v_b), P(s_port, v_6432),
      P(s_user, v_u1), P(s_user, v_u2), P(s_auth_user, v_u2),
      P(s_client_encoding, v_utf8), P(s_datestyle, v_iso), P(s_timezone, v_utc),
      P(s_pool_size, v_7), P(s_min_pool_size, v_1), P(s_reserve_pool, v_1),
      P(s_max_db_connections, v_12), P(s_pool_mode, s_transaction),
      Q(s_connect_query, v_query), Q(s_application_name, v_quoted) }

\* database connection strings: every single pair, and chosen longer ones
DatabaseStrings ==
    { Good(<<>>) } \cup { Good(<<p>>) : p \in DbPairs }
    \cup { Good(<<P(s_host, v_a), P(s_user, v_u1)>>),
           Good(<<P(s_host, v_a), P(s_pool_size, v_7)>>),
           Good(<<P(s_host, v_a), P(s_host, v_b)>>),
           Good(<<P(s_user, v_u1), P(s_password, v_p1)>>),
           Good(<<P(s_host, v_a), P(s_port, v_6432), P(s_user, v_u2)>>),
           Good(<<P(s_host, v_a), P(s_timezone, v_utc), P(s_pool_mode, s_session)>>) }

\* database connection strings parse_database rejects
BadDatabaseStrings ==
    { With(<<>>, t) : t \in {t_nokey, t_noequal, t_novalue, t_openquote,
                             t_unknown, t_badport, t_badmode} }
    \cup { With(<<P(s_host, v_b)>>, t_unknown),
           With(<<P(s_host, v_a), P(s_port, v_6432), P(s_host, v_b)>>, t_badport) }

\* the few connection strings of the configuration with every section
FewDatabaseStrings ==
    { Good(<<P(s_host, v_a)>>), Good(<<P(s_host, v_a), P(s_user, v_u1)>>),
      Good(<<P(s_host, v_a), P(s_pool_size, v_7), P(s_user, v_u1)>>) }
AutodbStrings ==
    { Good(<<P(s_host, v_a)>>), Good(<<P(s_host, v_b)>>), With(<<>>, t_unknown),
      Good(<<P(s_host, v_b), P(s_port, v_6432), P(s_pool_size, v_7)>>) }

UserStrings ==
    { Good(<<P(s_pool_mode, s_session)>>),
      Good(<<P(s_max_user_connections, v_7)>>),
      Good(<<P(s_pool_mode, s_transaction), P(s_max_user_connections, v_12)>>),
      Good(<<P(s_pool_mode, s_session), P(s_pool_mode, s_statement),
             P(s_max_user_connections, v_7)>>),
      With(<<>>, t_blank) }
FewUserStrings ==
    { Good(<<P(s_pool_mode, s_session)>>),
      Good(<<P(s_pool_mode, s_session), P(s_pool_mode, s_statement),
             P(s_max_user_connections, v_7)>>) }
BadUserStrings ==
    { With(<<>>, <<>>) }
    \cup { With(<<>>, t) : t \in {t_noequal, t_novalue, t_unknown, t_badmode, t_badint} }
    \cup { With(<<P(s_pool_mode, s_session)>>, t_badint) }

PoolStrings ==
    { Good(<<P(s_pool_size, v_7)>>), Good(<<P(s_pool_size, v_12)>>),
      Good(<<P(s_pool_size, v_1), P(s_pool_size, v_7), P(s_pool_size, v_12)>>),
      With(<<>>, t_blank) }
BadPoolStrings ==
    { With(<<>>, <<>>) }
    \cup { With(<<>>, t) : t \in {t_noequal, t_unknown, t_badsize} }

Bounded(strings) == {d \in strings : Len(d.pairs) <= MaxPairs}

\* the calls tried: every name with every string
Calls(names, strings) == {<<n, d>> : n \in names, d \in Bounded(strings)}

n_u1d1 == v_u1 \o <<".">> \o v_d1
n_u2d1 == v_u2 \o <<".">> \o v_d1
n_u1dd1 == v_u1 \o <<".", ".">> \o v_d1
n_u1pgbouncer == v_u1 \o <<".">> \o s_pgbouncer
BadPoolNames ==
    { v_u1, <<".">> \o n_u1d1, n_u1d1 \o <<".">>, n_u1d1 \o <<".">> \o v_x, <<>> }

(* ---- inputs: auth files ---- *)

\* a name too long for the registry, whatever MAX_USERNAME is
LongName == [i \in 1..MAX_USERNAME |-> "n"]
LongPassword == [i \in 1..MAX_PASSWORD |-> "s"]
v_qname == <<"u", "\"">>

L(kind, user, passwd) == [kind |-> kind, user |-> user, passwd |-> passwd]

RECURSIVE escape_dquotes(_)
escape_dquotes(v) ==
    IF v = <<>> THEN <<>>
    ELSE (IF Head(v) = "\"" THEN <<"\"", "\"">> ELSE <<Head(v)>>)
         \o escape_dquotes(Tail(v))

DQ(v) == <<"\"">> \o escape_dquotes(v) \o <<"\"">>

\* one line of an auth file as written
RenderLine(l) ==
    IF l.kind = "user" THEN DQ(l.user) \o <<" ">> \o DQ(l.passwd)
    ELSE IF l.kind = "comment" THEN <<";">> \o DQ(l.user) \o <<" ">> \o DQ(l.passwd)
    ELSE IF l.kind = "bare" THEN l.user \o <<" ">> \o l.passwd
    ELSE IF l.kind = "openuser" THEN <<"\"">> \o l.user
    ELSE IF l.kind = "nopass" THEN DQ(l.user)
    ELSE IF l.kind = "openpass" THEN DQ(l.user) \o <<" ", "\"">> \o l.passwd
    ELSE <<>>

RECURSIVE RenderFile(_)
RenderFile(lines) ==
    IF lines = <<>> THEN <<>>
    ELSE RenderLine(lines[1]) \o <<"\n">> \o RenderFile(Tail(lines))

\* the users a file lists: the names on its lines that are not comments
Listed(lines) ==
    {lines[i].user : i \in {j \in 1..Len(lines) : lines[j].kind \notin {"comment", "blank"}}}

\* a file the loader calls broken: a line not starting with a quote, an
\* unterminated name or password, a name or password too long
BrokenLine(l) ==
    \/ l.kind \in {"bare", "openuser", "openpass"}
    \/ l.kind = "user" /\ (Len(l.user) >= MAX_USERNAME \/ Len(l.passwd) >= MAX_PASSWORD)
Malformed(lines) == \E i \in 1..Len(lines) : BrokenLine(lines[i])

l_u1 == L("user", v_u1, v_p1)
l_u1b == L("user", v_u1, v_p2)
l_u2 == L("user", v_u2, v_p2)

AuthFiles ==
    { <<>>, <<l_u1>>, <<l_u1b>>, <<l_u2>>, <<l_u1, l_u2>>,
      <<L("comment", v_u1, v_p1), l_u2>>,
      <<L("blank", <<>>, <<>>), l_u1>>,
      <<L("user", v_qname, v_p1)>>,
      <<L("nopass", v_u1, <<>>), l_u2>>,
      <<L("bare", v_u1, v_p1)>>,
      <<l_u1, L("bare", v_u2, v_p2)>>,
      <<L("openuser", v_u2, <<>>)>>,
      <<l_u2, L("openpass", v_u1, v_p1)>>,
      <<L("user", LongName, v_p1)>>,
      <<l_u1, L("user", v_u2, LongPassword)>>,
      <<l_u1, l_u2, L("bare", v_u1, v_p1)>>,
      <<L("user", LongName, v_p1), l_u1, l_u2>> }

\* the few files the periodic check is tried with
FewAuthFiles == { <<l_u1>>, <<l_u1b>>, <<l_u1, l_u2>>, <<l_u1, l_u2, l_u1b>> }

BoundedFiles(files) == {f \in files : Len(f) <= MaxLines}

\* the modification times a file can carry
Mtimes == {1, 2}

f_auth == <<"a", "u", "t", "h">>

(* ---- the loader as a state machine ---- *)

VARIABLES
    applied,            \* history: name -> the string the last successful parse_database of it read
    loaded_file         \* history: NULL or the auth file as it was when last loaded

allvars == <<vars, applied, loaded_file>>

\* what `last` records of a call.  A call that leaves every variable as it was
\* is a stuttering step; the same call is also made right after a rejected
\* string, where `last` differs, so every call from every registry is a step.
NoCall ==
    [op |-> "none", name |-> <<>>, arg |-> Good(<<>>), file |-> <<>>,
     ret |-> FALSE, tagged |-> {}, autotag |-> FALSE,
     attempted |-> FALSE, loaded |-> FALSE]

NoFile == [exists |-> FALSE, readable |-> FALSE, mtime |-> 0, lines |-> <<>>,
           content |-> <<>>]

Init ==
    /\ users = EmptyMap
    /\ databases = EmptyMap
    /\ pools = <<>>
    /\ cf_autodb_connstr = NULL
    /\ cf_auth_file = NULL
    /\ auth_file = NoFile
    /\ cache_set = FALSE
    /\ cache = ZeroStat
    /\ last = NoCall
    /\ applied = EmptyMap
    /\ loaded_file = NULL

SetRegistry(reg) ==
    /\ users' = reg.users
    /\ databases' = reg.databases
    /\ pools' = reg.pools
    /\ cf_autodb_connstr' = reg.autodb

\* the history of applied strings after a call that filled the databases in `filled`
Record(filled) ==
    [n \in DOMAIN applied \cup {f[1] : f \in filled} |->
        IF \E f \in filled : f[1] = n
        THEN (CHOOSE f \in filled : f[1] = n)[2]
        ELSE applied[n]]

ParseDatabase(calls) ==
    \E c \in calls :
        \E r \in {parse_database(Registry, c[1], Render(c[2]))} :
            /\ SetRegistry(r.reg)
            /\ applied' = Record(r.filled)
            /\ last' = [NoCall EXCEPT !.op = "parse_database", !.name = c[1],
                                      !.arg = c[2], !.ret = r.ret,
                                      !.tagged = r.tagged, !.autotag = r.autotag]
            /\ UNCHANGED <<cf_auth_file, auth_file, cache_set, cache, loaded_file>>

ParseUser(calls) ==
    \E c \in calls :
        \E r \in {parse_user(Registry, c[1], Render(c[2]))} :
            /\ SetRegistry(r.reg)
            /\ last' = [NoCall EXCEPT !.op = "parse_user", !.name = c[1],
                                      !.arg = c[2], !.ret = r.ret]
            /\ UNCHANGED <<cf_auth_file, auth_file, cache_set, cache, applied,
                           loaded_file>>

ParsePool(calls) ==
    \E c \in calls :
        \E r \in {parse_pool(Registry, c[1], Render(c[2]))} :
            /\ SetRegistry(r.reg)
            /\ applied' = Record(r.filled)
            /\ last' = [NoCall EXCEPT !.op = "parse_pool", !.name = c[1],
                                      !.arg = c[2], !.ret = r.ret,
                                      !.tagged = r.tagged, !.autotag = r.autotag]
            /\ UNCHANGED <<cf_auth_file, auth_file, cache_set, cache, loaded_file>>

LoadAuthFile ==
    \E r \in {load_auth_file(Registry, cf_auth_file, auth_file)} :
        /\ SetRegistry(r.reg)
        /\ loaded_file' = IF r.loaded THEN Some(auth_file) ELSE loaded_file
        /\ last' = [NoCall EXCEPT !.op = "load_auth_file", !.file = auth_file.lines,
                                  !.ret = r.ret, !.attempted = TRUE,
                                  !.loaded = r.loaded]
        /\ UNCHANGED <<cf_auth_file, auth_file, cache_set, cache, applied>>

LoaderUsersCheck ==
    \E r \in {loader_users_check(Registry, cf_auth_file, auth_file, cache_set, cache)} :
        /\ SetRegistry(r.reg)
        /\ cache_set' = r.cache_set
        /\ cache' = r.cache
        /\ loaded_file' = IF r.loaded THEN Some(auth_file) ELSE loaded_file
        /\ last' = [NoCall EXCEPT !.op = "loader_users_check",
                                  !.file = auth_file.lines, !.ret = r.ret,
                                  !.attempted = r.attempted, !.loaded = r.loaded]
        /\ UNCHANGED <<cf_auth_file, auth_file, applied>>

\* the environment: the auth file is written, removed, or another one configured
Environment(op) ==
    /\ last' = [NoCall EXCEPT !.op = op]
    /\ UNCHANGED <<users, databases, pools, cf_autodb_connstr, cache_set, cache,
                   applied, loaded_file>>

WriteAuthFile(files, mtimes) ==
    \E lines \in files, m \in mtimes, r \in BOOLEAN :
        /\ auth_file' = [exists |-> TRUE, readable |-> r, mtime |-> m, lines |-> lines,
                         content |-> RenderFile(lines)]
        /\ UNCHANGED cf_auth_file
        /\ Environment("write")

RemoveAuthFile ==
    /\ auth_file.exists
    /\ auth_file' = NoFile
    /\ UNCHANGED cf_auth_file
    /\ Environment("remove")

SetAuthFile ==
    /\ cf_auth_file' = IF cf_auth_file = NULL THEN Some(f_auth) ELSE NULL
    /\ UNCHANGED auth_file
    /\ Environment("configure")

\* the loader started with an auth file configured and on disk
InitAuth ==
    /\ users = EmptyMap
    /\ databases = EmptyMap
    /\ pools = <<>>
    /\ cf_autodb_connstr = NULL
    /\ cf_auth_file = Some(f_auth)
    /\ auth_file = [exists |-> TRUE, readable |-> TRUE, mtime |-> 1, lines |-> <<l_u1>>,
                    content |-> RenderFile(<<l_u1>>)]
    /\ cache_set = FALSE
    /\ cache = ZeroStat
    /\ last = NoCall
    /\ applied = EmptyMap
    /\ loaded_file = NULL

\* the configuration loader with every section: databases, users, pools
Next ==
    \/ ParseDatabase(Calls({v_d1}, FewDatabaseStrings)
                     \cup Calls({s_star}, AutodbStrings)
                     \cup Calls({s_pgbouncer}, {Good(<<P(s_host, v_a)>>)}))
    \/ ParseUser(Calls({v_u1}, FewUserStrings))
    \/ ParsePool(Calls({n_u1d1}, {Good(<<P(s_pool_size, v_7)>>), With(<<>>, t_badsize)})
                 \cup Calls({n_u1pgbouncer}, {Good(<<P(s_pool_size, v_7)>>)})
                 \cup Calls({n_u1dd1}, {Good(<<P(s_pool_size, v_12)>>)})
                 \cup Calls(BadPoolNames, {Good(<<P(s_pool_size, v_7)>>)}))

Spec == Init /\ [][Next]_allvars

\* the pool section among the others, with users that have a secret
NextPool ==
    \/ ParsePool(Calls({n_u1d1}, PoolStrings \cup {With(<<>>, t_badsize)})
                 \cup Calls({n_u2d1}, {Good(<<P(s_pool_size, v_7)>>)})
                 \cup Calls({n_u1dd1}, {Good(<<P(s_pool_size, v_12)>>)}))
    \/ ParseUser(Calls({v_u1}, FewUserStrings))
    \/ ParseDatabase(Calls({v_d1, s_star}, {Good(<<P(s_host, v_a)>>)}))
    \/ LoadAuthFile

SpecPool == InitAuth /\ [][NextPool]_allvars

\* the database and user sections, read and re-read with many strings
NextCfg ==
    \/ ParseDatabase(Calls({v_d1}, DatabaseStrings)
                     \cup Calls({v_d1}, {With(<<>>, t_unknown),
                                         With(<<P(s_host, v_b)>>, t_badport)})
                     \cup Calls({s_pgbouncer}, {Good(<<P(s_host, v_a)>>)}))
    \/ ParseUser(Calls({v_u1}, UserStrings \cup {With(<<>>, t_badint)}))
    \/ ParsePool(Calls({n_u1d1}, {Good(<<P(s_pool_size, v_7)>>)}))

SpecCfg == Init /\ [][NextCfg]_allvars

\* every section read with strings it rejects, among a few it accepts
NextReject ==
    \/ ParseDatabase(Calls({v_d1}, {Good(<<P(s_host, v_a)>>), Good(<<P(s_host, v_b)>>)})
                     \cup Calls({v_d1, v_d2}, BadDatabaseStrings)
                     \cup Calls({s_star}, {Good(<<P(s_host, v_a)>>)}))
    \/ ParseUser(Calls({v_u1}, {Good(<<P(s_pool_mode, s_session)>>)})
                 \cup Calls({v_u1, v_u2}, BadUserStrings))
    \/ ParsePool(Calls({n_u1d1}, {Good(<<P(s_pool_size, v_7)>>)})
                 \cup Calls({n_u1d1, n_u2d1}, BadPoolStrings)
                 \cup Calls(BadPoolNames, {Good(<<P(s_pool_size, v_7)>>)}))

SpecReject == Init /\ [][NextReject]_allvars

\* the auth file loaded as it changes, with a user of the user section
NextLoad ==
    \/ LoadAuthFile
    \/ WriteAuthFile(BoundedFiles(AuthFiles), {1})
    \/ SetAuthFile
    \/ ParseUser(Calls({v_u2}, {Good(<<P(s_pool_mode, s_session)>>)}))

SpecLoad == Init /\ [][NextLoad]_allvars

\* the periodic check of the auth file as the file changes
NextCheck ==
    \/ LoaderUsersCheck
    \/ LoadAuthFile
    \/ WriteAuthFile(BoundedFiles(FewAuthFiles), Mtimes)
    \/ RemoveAuthFile
    \/ SetAuthFile

SpecCheck == Init /\ [][NextCheck]_allvars

(* ---- what a parameter string means, read off its pairs ---- *)

Number(v) ==
    CASE v = v_1 -> 1 [] v = v_7 -> 7 [] v = v_12 -> 12 [] v = v_6432 -> 6432

ModeName(v) ==
    CASE v = s_session -> "session" [] v = s_transaction -> "transaction"
      [] v = s_statement -> "statement"

NumberOr(pairs, k, default) ==
    IF Given(pairs, k) = NULL THEN default ELSE Number(Given(pairs, k)[1])

ModeOr(pairs, k, default) ==
    IF Given(pairs, k) = NULL THEN default ELSE ModeName(Given(pairs, k)[1])

StartupParam(pairs, k) ==
    IF Given(pairs, k) = NULL THEN <<>> ELSE <<k, Given(pairs, k)[1]>>

\* the target record a connection string supplies for the database `name`
Supplied(name, pairs) ==
    [dbname |-> IF Given(pairs, s_dbname) = NULL THEN name ELSE Given(pairs, s_dbname)[1],
     host |-> Given(pairs, s_host),
     port |-> NumberOr(pairs, s_port, 5432),
     user |-> Given(pairs, s_user),
     pool_size |-> NumberOr(pairs, s_pool_size, -1),
     min_pool_size |-> NumberOr(pairs, s_min_pool_size, -1),
     res_pool_size |-> NumberOr(pairs, s_reserve_pool, -1),
     max_db_connections |-> NumberOr(pairs, s_max_db_connections, -1),
     pool_mode |-> ModeOr(pairs, s_pool_mode, "inherit"),
     connect_query |-> Given(pairs, s_connect_query),
     startup_params |->
        <<s_database,
          IF Given(pairs, s_dbname) = NULL THEN name ELSE Given(pairs, s_dbname)[1]>>
        \o StartupParam(pairs, s_client_encoding) \o StartupParam(pairs, s_datestyle)
        \o StartupParam(pairs, s_timezone) \o StartupParam(pairs, s_application_name)]

ForcedName(db) ==
    IF db.forced_user = NULL THEN NULL ELSE Some(db.forced_user[1].name)

\* the stored record differs from the supplied one in a field that names the
\* server to connect to: dbname, host, port, forced user, connect_query
ConnectionDiffers(db, sup) ==
    \/ db.dbname # Some(sup.dbname)
    \/ db.host # sup.host
    \/ db.port # sup.port
    \/ ForcedName(db) # sup.user
    \/ db.connect_query # sup.connect_query

\* the stored record differs from the supplied one in any field
RecordDiffers(db, sup) ==
    \/ ConnectionDiffers(db, sup)
    \/ db.pool_size # sup.pool_size
    \/ db.min_pool_size # sup.min_pool_size
    \/ db.res_pool_size # sup.res_pool_size
    \/ db.max_db_connections # sup.max_db_connections
    \/ db.pool_mode # sup.pool_mode
    \/ db.startup_params # sup.startup_params

\* the call just made is a parse_database that filled a Target
FilledDatabase(l) ==
    l.op = "parse_database" /\ l.ret /\ l.name # s_star

(* ---- C2 ---- *)

\* C2 (as claimed): a successful parse_database of an existing Target whose
\* supplied record differs from the stored one in any field tags it dirty.
C2_AnyDifferenceTagsDirty ==
    [][ ( /\ FilledDatabase(last')
          /\ last'.name \in DOMAIN databases
          /\ RecordDiffers(databases[last'.name], Supplied(last'.name, last'.arg.pairs)) )
        => last'.name \in last'.tagged ]_allvars

\* C2 (amended): a successful parse_database of a Target that an earlier
\* parse_database has filled tags it dirty when the supplied record differs from
\* the stored one in dbname, host, port, forced user name or connect_query.
C2_ConnectionDifferenceTagsDirty ==
    [][ ( /\ FilledDatabase(last')
          /\ last'.name \in DOMAIN databases
          /\ databases[last'.name].dbname # NULL
          /\ ConnectionDiffers(databases[last'.name],
                               Supplied(last'.name, last'.arg.pairs)) )
        => last'.name \in last'.tagged ]_allvars

\* a filled Target without a forced user has been re-read from the empty
\* string and tagged
C2_Witness ==
    /\ FilledDatabase(last)
    /\ last.arg = Good(<<>>)
    /\ last.name \in last.tagged
    /\ databases[last.name].forced_user = NULL
    /\ databases[last.name].port = 5432

(* ---- C5 ---- *)

\* C5: a successful parse_user or parse_database stores a complete record:
\* every override the string omits has its default, whatever was stored, and
\* the startup parameters are the database name and the four values given.
C5_CompleteRecord ==
    /\ (last.op = "parse_user" /\ last.ret) =>
          /\ users[last.name].pool_mode = ModeOr(last.arg.pairs, s_pool_mode, "inherit")
          /\ users[last.name].max_user_connections =
                NumberOr(last.arg.pairs, s_max_user_connections, -1)
    /\ FilledDatabase(last) =>
          LET db == databases[last.name]
              sup == Supplied(last.name, last.arg.pairs)
          IN  /\ db.pool_mode = sup.pool_mode
              /\ db.pool_size = sup.pool_size
              /\ db.min_pool_size = sup.min_pool_size
              /\ db.res_pool_size = sup.res_pool_size
              /\ db.max_db_connections = sup.max_db_connections
              /\ db.port = sup.port
              /\ db.host = sup.host
              /\ db.connect_query = sup.connect_query
              /\ db.startup_params = sup.startup_params

\* a Target that once had a forced user has been re-read from the empty string
C5_Witness ==
    /\ FilledDatabase(last)
    /\ last.arg = Good(<<>>)
    /\ databases[last.name].forced_user # NULL
    /\ databases[last.name].host = NULL
    /\ \E u \in DOMAIN users : users[u].pool_mode # "inherit"

(* ---- C8 ---- *)

\* C8 (as claimed): parse_database of an existing Target with the string its
\* previous successful parse_database read does not tag it dirty.
C8_ReloadTagsNothing ==
    [][ ( /\ FilledDatabase(last')
          /\ last'.name \in DOMAIN applied
          /\ applied[last'.name] = Render(last'.arg) )
        => last'.name \notin last'.tagged ]_allvars

(* ---- C4 ---- *)

IsParse(l) == l.op \in {"parse_database", "parse_user", "parse_pool"}

\* C4: a parse_database, parse_user or parse_pool that returns false leaves the
\* registry as it was: no user, database or pool is created or modified, the
\* autodb string is kept and nothing is tagged dirty.
C4_RejectedChangesNothing ==
    [][ (IsParse(last') /\ ~last'.ret)
        => /\ users' = users
           /\ databases' = databases
           /\ pools' = pools
           /\ cf_autodb_connstr' = cf_autodb_connstr
           /\ last'.tagged = {}
           /\ ~last'.autotag ]_allvars

\* a pool name with too many delimiters has been rejected for a user and a
\* database not yet in the registry, while the registry holds others
C4_Witness ==
    /\ last.op = "parse_pool"
    /\ ~last.ret
    /\ last.name \in BadPoolNames
    /\ pools # <<>>
    /\ v_u2 \notin DOMAIN users

(* ---- C6 ---- *)

\* the pool a well-formed pool name stands for
PoolUser(name) == CASE name = n_u1d1 -> v_u1 [] name = n_u2d1 -> v_u2
PoolDatabase(name) == CASE name = n_u1d1 -> v_d1 [] name = n_u2d1 -> v_d1

PoolsOf(ps, d, u) == {i \in 1..Len(ps) : ps[i].db = d /\ ps[i].user = u}

\* C6: a successful parse_pool of "u.d" leaves exactly one pool of (d, u), with
\* user u and Target d in the registry and the pool_size given; no two pools
\* ever share their (Target, Credential); parse_pool and parse_user leave the
\* secret of every existing user as it was.
C6_OnePoolPerPair ==
    [][ /\ (last'.op = "parse_pool" /\ last'.ret /\ last'.name \in {n_u1d1, n_u2d1})
           => /\ PoolUser(last'.name) \in DOMAIN users'
              /\ PoolDatabase(last'.name) \in DOMAIN databases'
              /\ Cardinality(PoolsOf(pools', PoolDatabase(last'.name),
                                     PoolUser(last'.name))) = 1
              /\ \A i \in PoolsOf(pools', PoolDatabase(last'.name), PoolUser(last'.name)) :
                    pools'[i].pool_size = NumberOr(last'.arg.pairs, s_pool_size, -1)
        /\ \A i, j \in 1..Len(pools') :
              (pools'[i].db = pools'[j].db /\ pools'[i].user = pools'[j].user) => i = j
        /\ (last'.op \in {"parse_pool", "parse_user"})
           => \A u \in DOMAIN users :
                 u \in DOMAIN users' /\ users'[u].passwd = users[u].passwd
      ]_allvars

\* the pool of a user with a secret from the auth file has been given a size again
C6_Witness ==
    /\ last.op = "parse_pool"
    /\ last.ret
    /\ last.name = n_u1d1
    /\ Len(pools) = 2
    /\ users[v_u1].passwd = v_p1
    /\ pools[1].db = v_d1 /\ pools[1].user = v_u1 /\ pools[1].pool_size = 12

(* ---- C7 ---- *)

\* C7: parse_database of the reserved name "pgbouncer" returns false and leaves
\* the registry as it was, so no Target of that name is ever filled by it.
C7_ReservedName ==
    [][ /\ (last'.op = "parse_database" /\ last'.name = s_pgbouncer)
           => /\ ~last'.ret
              /\ users' = users
              /\ databases' = databases
              /\ pools' = pools
              /\ cf_autodb_connstr' = cf_autodb_connstr
        /\ s_pgbouncer \notin DOMAIN applied'
        /\ (s_pgbouncer \in DOMAIN databases' => databases'[s_pgbouncer].dbname = NULL)
      ]_allvars

\* the reserved name has been refused while a pool had made a Target of that name
C7_Witness ==
    /\ last.op = "parse_database"
    /\ last.name = s_pgbouncer
    /\ ~last.ret
    /\ s_pgbouncer \in DOMAIN databases
    /\ cf_autodb_connstr # NULL

(* ---- C10 ---- *)

\* C10: parse_database of "*" returns true, creates and modifies no Target,
\* stores the string as the autodb string, and tags the auto-created databases
\* dirty exactly when an earlier autodb string existed and differs.
C10_Autodb ==
    [][ (last'.op = "parse_database" /\ last'.name = s_star)
        => /\ last'.ret
           /\ databases' = databases
           /\ users' = users
           /\ pools' = pools
           /\ cf_autodb_connstr' = Some(Render(last'.arg))
           /\ last'.autotag <=> (/\ cf_autodb_connstr # NULL
                                 /\ cf_autodb_connstr[1] # Render(last'.arg))
           /\ last'.tagged = IF last'.autotag
                             THEN {n \in DOMAIN databases : databases[n].db_auto}
                             ELSE {} ]_allvars

\* the autodb string has been replaced by another one with an auto-created
\* database in the registry
C10_Witness ==
    /\ last.op = "parse_database"
    /\ last.name = s_star
    /\ last.autotag
    /\ last.tagged # {}

(* ---- C1 ---- *)

IsLoad(l) == l.op \in {"load_auth_file", "loader_users_check"} /\ l.loaded

\* C1 (as claimed): after load_auth_file has read a malformed auth file every
\* user has the secret and the from_auth_file flag it had before.
C1_MalformedFileKeepsCredentials ==
    [][ (IsLoad(last') /\ Malformed(last'.file))
        => \A u \in DOMAIN users :
              /\ u \in DOMAIN users'
              /\ users'[u].passwd = users[u].passwd
              /\ users'[u].from_auth_file = users[u].from_auth_file ]_allvars

(* ---- C3 ---- *)

\* C3: a load_auth_file that returns true removes no user, and every user from
\* before that the file does not list has an empty secret and no
\* from_auth_file flag afterwards.
C3_UnlistedUsersDisabled ==
    [][ (IsLoad(last') /\ last'.ret)
        => \A u \in DOMAIN users :
              /\ u \in DOMAIN users'
              /\ u \notin Listed(last'.file)
                 => users'[u].passwd = <<>> /\ ~users'[u].from_auth_file ]_allvars

\* a file listing only one of two known users has been loaded
C3_Witness ==
    /\ IsLoad(last)
    /\ last.ret
    /\ v_u1 \in DOMAIN users
    /\ v_u1 \notin Listed(last.file)
    /\ users[v_u1].passwd = <<>>
    /\ \E u \in Listed(last.file) : u \in DOMAIN users /\ users[u].from_auth_file

(* ---- C9 ---- *)

\* C9 (as claimed): loader_users_check returns true only if the auth file, with
\* the stat signature it has now, has been loaded by load_auth_file.
C9_TrueOnlyIfLoaded ==
    (last.op = "loader_users_check" /\ last.ret)
    => /\ loaded_file # NULL
       /\ cf_auth_file # NULL
       /\ stat(cf_auth_file[1], loaded_file[1]) = stat(cf_auth_file[1], auth_file)

(* ---- C11 ---- *)

\* the number of '.' in a pool name
RECURSIVE DelimiterCount(_)
DelimiterCount(s) ==
    IF s = <<>> THEN 0
    ELSE (IF Head(s) = "." THEN 1 ELSE 0) + DelimiterCount(Tail(s))

\* user.database: exactly one '.', with a character before it and one after it
OneDelimiterName(s) ==
    /\ DelimiterCount(s) = 1
    /\ Head(s) # "."
    /\ s[Len(s)] # "."

\* a pool parameter string parse_pool reads to its end: not empty, and made of
\* pool_size pairs and blanks only
ReadablePoolParams(d) ==
    /\ d.tail \in {<<>>, t_blank}
    /\ d.pairs # <<>> \/ d.tail # <<>>
    /\ \A i \in 1..Len(d.pairs) :
          d.pairs[i].k = s_pool_size /\ d.pairs[i].v \in {v_1, v_7, v_12}

\* C11 (as claimed): parse_pool, given parameters it can read, returns true if
\* and only if the pool name is user.database with exactly one '.' delimiter
\* and a non-empty name on each side of it.
C11_AcceptsOnlyOneDelimiter ==
    (last.op = "parse_pool" /\ ReadablePoolParams(last.arg))
    => (last.ret <=> OneDelimiterName(last.name))

====
